---------------------------- MODULE Spec2Model ----------------------------
(***************************************************************************)
(* A model of src/extract_stars.py: the extraction of star records from   *)
(* the lines of an SVG file.                                               *)
(*                                                                         *)
(* Text is modelled as sequences of one-character strings, so that the     *)
(* regular expressions and float() are operators that act on characters.   *)
(* Numbers are fixed-point integers in units of 10^-Decimals (the canvas   *)
(* size has four decimals); the input texts of the model carry at most     *)
(* four fractional digits, so that every value is exact.                   *)
(* Line indices are 1-based here (Python's are 0-based): the loop guard    *)
(* "j >= 0" reads "j >= 1".                                                *)
(***************************************************************************)
EXTENDS Integers, Sequences, FiniteSets

VARIABLES lines, found_labels, todo, pos, stars, id_counter, star_list,
          stars_json, stars_pretty_json, tile_counts, report, pc

vars == <<lines, found_labels, todo, pos, stars, id_counter, star_list,
          stars_json, stars_pretty_json, tile_counts, report, pc>>

---------------------------------------------------------------------------
(* Characters *)

Alphabet ==
  <<"A","B","C","D","E","F","G","H","I","J","K","L","M",
    "N","O","P","Q","R","S","T","U","V","W","X","Y","Z",
    "a","b","c","d","e","f","g","h","i","j","k","l","m",
    "n","o","p","q","r","s","t","u","v","w","x","y","z">>

Upper == {Alphabet[i] : i \in 1..26}
Lower == {Alphabet[i] : i \in 27..52}
DigitSeq == <<"0","1","2","3","4","5","6","7","8","9">>
Digit == {DigitSeq[i] : i \in 1..10}
DigitDot == Digit \cup {"."}
Whitespace == {" "}

\* The code point order of the letters: every uppercase before every lowercase.
Code(c) == CHOOSE i \in 1..52 : Alphabet[i] = c
DigitVal(c) == (CHOOSE i \in 1..10 : DigitSeq[i] = c) - 1

\* Python's str comparison, on names made of letters.
NameLess(a, b) ==
  \/ \E i \in 1..Len(a) :
        /\ i <= Len(b)
        /\ \A h \in 1..(i-1) : a[h] = b[h]
        /\ Code(a[i]) < Code(b[i])
  \/ /\ Len(a) < Len(b)
     /\ \A h \in 1..Len(a) : a[h] = b[h]

---------------------------------------------------------------------------
(* Program constants *)

Decimals == 4
Unit == 10^Decimals
SVG_WIDTH == 20107097
SVG_HEIGHT == 11225203
Window == 10

Denylist ==
  { <<"G","r","i","d","s">>, <<"S","o","u","r","c","e">>,
    <<"L","e","g","e","n","d">>, <<"B","o","r","d","e","r">>,
    <<"A","x","i","s">>, <<"E","c","l","i","p","t","i","c">>,
    <<"E","q","u","a","t","o","r">> }

---------------------------------------------------------------------------
(* star_pattern: inkscape:label="[^"]*-\s+([A-Z][a-z]{3,})" on one label    *)
(* attribute value v (the text between the quotes).  The captured name is  *)
(* the trailing run "one uppercase, then lowercase to the closing quote".  *)

\* The last position of v, at or before i, that holds no lowercase letter
\* (0 when there is none).
RECURSIVE LastNonLower(_, _)
LastNonLower(v, i) ==
  IF i = 0 THEN 0
  ELSE IF v[i] \notin Lower THEN i
  ELSE LastNonLower(v, i - 1)

NameStart(v) == LastNonLower(v, Len(v))

LabelMatches(v) ==
  LET s == NameStart(v) IN
    /\ s >= 3
    /\ v[s] \in Upper
    /\ Len(v) - s >= 3
    /\ v[s-1] \in Whitespace
    /\ \E p \in 1..(s-2) :
         /\ v[p] = "-"
         /\ \A i \in (p+1)..(s-1) : v[i] \in Whitespace

LabelName(v) == SubSeq(v, NameStart(v), Len(v))

\* star_pattern.findall(line): the names captured on one line, in order.
RECURSIVE FindAll(_)
FindAll(labels) ==
  IF labels = <<>> THEN <<>>
  ELSE (IF LabelMatches(Head(labels)) THEN <<LabelName(Head(labels))>> ELSE <<>>)
       \o FindAll(Tail(labels))

\* The scan without its denylist test.
Qualifies_NoDenylist(name) ==
  ~ \E i \in 1..Len(name) : name[i] \in Digit

\* Lines 24-28: what the scan keeps of a captured name.
Qualifies(name) ==
  /\ name \notin Denylist
  /\ ~ \E i \in 1..Len(name) : name[i] \in Digit

\* Lines 17-29: found_labels, a map from each kept name to its line indices.
ScanLabels(ls) ==
  LET Kept(i) == {n \in {FindAll(ls[i].labels)[h] : h \in 1..Len(FindAll(ls[i].labels))} :
                    Qualifies(n)}
      Names == UNION {Kept(i) : i \in 1..Len(ls)}
  IN [n \in Names |-> {i \in 1..Len(ls) : n \in Kept(i)}]

\* found_labels.items() without sorted(): the names in the order of their
\* first lines.
RECURSIVE InsertionOrder(_, _)
InsertionOrder(found, S) ==
  IF S = {} THEN <<>>
  ELSE LET First(x) == CHOOSE i \in found[x] : \A h \in found[x] : i <= h
           m == CHOOSE x \in S : \A y \in S :
                  \/ x = y
                  \/ First(x) < First(y)
                  \/ (First(x) = First(y) /\ NameLess(x, y))
       IN <<m>> \o InsertionOrder(found, S \ {m})

SortedItems_Unsorted(found) == InsertionOrder(found, DOMAIN found)

\* sorted(found_labels.items()): the names in ascending order.
RECURSIVE SortNames(_)
SortNames(S) ==
  IF S = {} THEN <<>>
  ELSE LET m == CHOOSE x \in S : \A y \in S : x = y \/ NameLess(x, y)
       IN <<m>> \o SortNames(S \ {m})

SortedItems(found) == SortNames(DOMAIN found)

\* min(line_indices)
MinIndex(S) == CHOOSE i \in S : \A h \in S : i <= h

---------------------------------------------------------------------------
(* Numbers: float() on a text of digits and dots, in units of 10^-Decimals *)

\* float(t) raises ValueError unless t has a digit and at most one dot.
FloatOk(t) ==
  /\ Cardinality({i \in 1..Len(t) : t[i] = "."}) <= 1
  /\ \E i \in 1..Len(t) : t[i] \in Digit

RECURSIVE DigitsVal(_)
DigitsVal(t) ==
  IF t = <<>> THEN 0
  ELSE DigitsVal(SubSeq(t, 1, Len(t) - 1)) * 10 + DigitVal(t[Len(t)])

FloatVal(t) ==
  LET dot  == IF \E i \in 1..Len(t) : t[i] = "."
              THEN CHOOSE i \in 1..Len(t) : t[i] = "."
              ELSE Len(t) + 1
      int  == SubSeq(t, 1, dot - 1)
      frac == SubSeq(t, dot + 1, Len(t))
      kept == IF Len(frac) < Decimals THEN Len(frac) ELSE Decimals
  IN DigitsVal(int) * Unit + DigitsVal(SubSeq(frac, 1, kept)) * 10^(Decimals - kept)

\* x * scale of two fixed-point numbers, without leaving 32 bits.
Times(x, s) ==
  LET xi == x \div Unit  xf == x % Unit
      si == s \div Unit  sf == s % Unit
  IN xi * si * Unit + xi * sf + xf * si + (xf * sf) \div Unit

\* n*m/c as quotient and remainder, then the remaining decimal places.
RatioMul(p, m, c) == [q |-> p.q * m + (p.r * m) \div c, r |-> (p.r * m) % c]

RECURSIVE RatioShift(_, _, _)
RatioShift(p, k, c) ==
  IF k = 0 THEN p ELSE RatioShift(RatioMul(p, 10, c), k - 1, c)

\* round(n * m / c, Decimals) for n >= 0, in units of 10^-Decimals
\* (round() rounds a half to the even neighbour).
RoundedQuot(n, m, c) ==
  LET p == RatioShift(RatioMul([q |-> n \div c, r |-> n % c], m, c), Decimals, c)
  IN IF 2 * p.r > c \/ (2 * p.r = c /\ p.q % 2 = 1) THEN p.q + 1 ELSE p.q

\* Line 65: ra = round((scaled_x / SVG_WIDTH) * 24.0, 4)
RightAscension(scaled_x) == RoundedQuot(scaled_x, 24, SVG_WIDTH)

\* Line 66: dec = round(((H / 2.0) - scaled_y) / (H / 2.0) * 90.0, 4)
Declination(scaled_y) ==
  LET n == SVG_HEIGHT - 2 * scaled_y
  IN IF n >= 0 THEN RoundedQuot(n, 90, SVG_HEIGHT)
     ELSE 0 - RoundedQuot(0 - n, 90, SVG_HEIGHT)

\* Lines 72-73: int(scaled / (size / cells)), the operand never negative.
TileX(scaled_x) == (4 * scaled_x) \div SVG_WIDTH
TileY(scaled_y) == (3 * scaled_y) \div SVG_HEIGHT

\* Line 74
TileId(tile_x, tile_y) == tile_y * 4 + tile_x

\* Line 84: round(v, 2), in hundredths.
Round2(v) ==
  LET h == 10^(Decimals - 2)
      q == v \div h
      r == v % h
  IN IF 2 * r > h \/ (2 * r = h /\ q % 2 = 1) THEN q + 1 ELSE q

---------------------------------------------------------------------------
(* The coordinate and scale patterns *)

\* The end of the run of [\d.] characters of v that starts at position from
\* (from - 1 when there is none).
RECURSIVE RunEnd(_, _)
RunEnd(v, from) ==
  IF from <= Len(v) /\ v[from] \in DigitDot THEN RunEnd(v, from + 1)
  ELSE from - 1

\* Line 49: ' d="' in lines[k]
HasD(line) == line.d # <<>>

\* Line 51: re.search(r' d="m ([\d.]+),([\d.]+)', line), on the text v that
\* follows ' d="'.
DMatches(v) ==
  /\ Len(v) >= 5
  /\ v[1] = "m"
  /\ v[2] = " "
  /\ LET e == RunEnd(v, 3) IN
       /\ e >= 3
       /\ e < Len(v)
       /\ v[e + 1] = ","
       /\ RunEnd(v, e + 2) >= e + 2

DGroup1(v) == SubSeq(v, 3, RunEnd(v, 3))
DGroup2(v) == SubSeq(v, RunEnd(v, 3) + 2, RunEnd(v, RunEnd(v, 3) + 2))

DMatch(line) == HasD(line) /\ DMatches(line.d[1])

\* Line 57: re.search(r'transform="scale\(([\d.]+)\)"', line), on the text
\* between 'scale(' and ')"'.
ScaleMatch(line) ==
  /\ line.scale # <<>>
  /\ Len(line.scale[1]) >= 1
  /\ \A i \in 1..Len(line.scale[1]) : line.scale[1][i] \in DigitDot

\* Line 45: '    <path' in lines[j]
HasPath(line) == line.path

---------------------------------------------------------------------------
(* Lines 42-93: the backward search for a path element and, from it, the   *)
(* forward search for coordinates.  The result is the index of the line    *)
(* whose coordinates are used, or 0 when the name is skipped.              *)

\* The forward search running on past the anchor line.
RECURSIVE SearchForward_PastAnchor(_, _, _)
SearchForward_PastAnchor(ls, k, line_idx) ==
  IF k > Len(ls) THEN 0
  ELSE IF HasD(ls[k]) /\ DMatch(ls[k]) THEN k
  ELSE SearchForward_PastAnchor(ls, k + 1, line_idx)

\* Lines 47-90: while k <= line_idx
RECURSIVE SearchForward(_, _, _)
SearchForward(ls, k, line_idx) ==
  IF k > line_idx THEN 0
  ELSE IF HasD(ls[k]) /\ DMatch(ls[k]) THEN k
  ELSE SearchForward(ls, k + 1, line_idx)

\* The window with its far end included.
InWindow_Inclusive(j, line_idx) == j >= 1 /\ j >= line_idx - Window

\* Line 44: while j >= 0 and j > line_idx - 10
InWindow(j, line_idx) == j >= 1 /\ j > line_idx - Window

\* The backward search stopping at the nearest path element.
RECURSIVE SearchBackward_NearestOnly(_, _, _)
SearchBackward_NearestOnly(ls, j, line_idx) ==
  IF ~(j >= 1 /\ j > line_idx - Window) THEN 0
  ELSE IF HasPath(ls[j]) THEN SearchForward(ls, j, line_idx)
  ELSE SearchBackward_NearestOnly(ls, j - 1, line_idx)

\* Lines 44-93
RECURSIVE SearchBackward(_, _, _)
SearchBackward(ls, j, line_idx) ==
  IF ~InWindow(j, line_idx) THEN 0
  ELSE IF HasPath(ls[j]) /\ SearchForward(ls, j, line_idx) # 0
       THEN SearchForward(ls, j, line_idx)
  ELSE SearchBackward(ls, j - 1, line_idx)

\* max(line_indices) in the place of min(line_indices).
Anchor_Last(found, name) ==
  CHOOSE i \in found[name] : \A h \in found[name] : h <= i

\* Line 39
Anchor(found, name) == MinIndex(found[name])

\* Lines 39-52: the line whose coordinates the name gets (0: skipped).
CoordLine(ls, found, name) ==
  SearchBackward(ls, Anchor(found, name), Anchor(found, name))

\* Lines 53-58: the three float() calls; any of them may raise.
ParseRaises(ls, k, line_idx) ==
  \/ ~FloatOk(DGroup1(ls[k].d[1]))
  \/ ~FloatOk(DGroup2(ls[k].d[1]))
  \/ (ScaleMatch(ls[line_idx]) /\ ~FloatOk(ls[line_idx].scale[1]))

\* Line 58: the scale, 1.0 when the anchor line has none.
ScaleOf(line) == IF ScaleMatch(line) THEN FloatVal(line.scale[1]) ELSE Unit

\* Lines 53-85: the record of a name, from the coordinates on line k.
MakeRecord(ls, name, k, line_idx, id) ==
  LET x        == FloatVal(DGroup1(ls[k].d[1]))
      y        == FloatVal(DGroup2(ls[k].d[1]))
      scale    == ScaleOf(ls[line_idx])
      scaled_x == Times(x, scale)
      scaled_y == Times(y, scale)
      tile_x   == TileX(scaled_x)
      tile_y   == TileY(scaled_y)
  IN [ id          |-> id,
       name        |-> name,
       ra          |-> RightAscension(scaled_x),
       dec         |-> Declination(scaled_y),
       magnitude   |-> 2 * Unit,
       tile_id     |-> TileId(tile_x, tile_y),
       tile_coords |-> [x |-> tile_x, y |-> tile_y],
       svg_pos     |-> [x |-> Round2(scaled_x), y |-> Round2(scaled_y)] ]

---------------------------------------------------------------------------
(* Lines 76-120: the records, the output files and the histogram *)

\* Line 76: stars[name] = record, on a dict that keeps insertion order.
Put(st, rec) ==
  IF \E i \in 1..Len(st) : st[i].name = rec.name
  THEN [i \in 1..Len(st) |-> IF st[i].name = rec.name THEN rec ELSE st[i]]
  ELSE Append(st, rec)

\* Line 99: star_list.sort(key=lambda x: x['name']), a stable sort.
RECURSIVE Insert(_, _)
Insert(sorted, rec) ==
  IF sorted = <<>> THEN <<rec>>
  ELSE IF NameLess(rec.name, Head(sorted).name) THEN <<rec>> \o sorted
  ELSE <<Head(sorted)>> \o Insert(Tail(sorted), rec)

RECURSIVE SortByName(_)
SortByName(st) ==
  IF st = <<>> THEN <<>>
  ELSE Insert(SortByName(SubSeq(st, 1, Len(st) - 1)), st[Len(st)])

\* Lines 113-115: tile_counts[star['tile_id']] += 1
TileCounts(list) ==
  [t \in {list[i].tile_id : i \in 1..Len(list)} |->
     Cardinality({i \in 1..Len(list) : list[i].tile_id = t})]

\* Lines 118-120: the counts printed for range(12); a tile without a count
\* prints 0.  report[i] is the count printed for tile i - 1.
Report(counts) ==
  [i \in 1..12 |-> IF (i - 1) \in DOMAIN counts THEN counts[i - 1] ELSE 0]

---------------------------------------------------------------------------
(* The input files of the model *)

MaxLines == 3
MaxGap == 10

NoText == <<>>
Line(path, d, labels, scale) ==
  [path |-> path, d |-> d, labels |-> labels, scale |-> scale]

MoveTo(x, y) == <<"m", " ">> \o x \o <<",">> \o y

L_Vega   == <<"x","y","z","-"," ","V","e","g","a">>
L_Rigel  == <<"p","a","t","h","7"," ","O","r","i","-"," "," ","R","i","g","e","l">>
L_Altair == <<"A","q","l","-"," ","A","l","t","a","i","r">>
L_Legend == <<"m","a","p","-"," ","L","e","g","e","n","d">>
L_Digit  == <<"L","M","i","-"," ","L","m","i","1","5">>
L_NoDash == <<"L","y","r"," ","V","e","g","a">>

N_100  == <<"1","0","0",".","0">>
N_50   == <<"5","0",".","0">>
N_2    == <<"2",".","0">>
N_Half == <<"0",".","5">>
N_300  == <<"3","0","0",".","5">>
N_200  == <<"2","0","0",".","2","5">>
N_Edge == <<"2","0","1","0",".","7","0","9">>
N_Low  == <<"1","1","2","2",".","5","2","0","3">>
N_3000 == <<"3","0","0","0">>
N_2000 == <<"2","0","0","0">>
N_Bad  == <<"1",".","2",".","3">>
N_Dots == <<"1",".",".","5">>
D_Upper == <<"M"," ","5",",","5">>

Blank       == Line(FALSE, NoText, NoText, NoText)
PathOnly    == Line(TRUE,  NoText, NoText, NoText)
CoordOnly   == Line(FALSE, <<MoveTo(N_300, N_200)>>, NoText, NoText)
UpperMove   == Line(TRUE,  <<D_Upper>>, NoText, NoText)
BadCoord    == Line(TRUE,  <<MoveTo(N_Bad, N_50)>>, NoText, NoText)
EdgePath    == Line(TRUE,  <<MoveTo(N_Edge, N_Low)>>, NoText, NoText)
AltairLabel == Line(FALSE, NoText, <<L_Altair>>, NoText)
RigelLabel  == Line(FALSE, NoText, <<L_Rigel>>, <<N_Half>>)
VegaBad     == Line(FALSE, NoText, <<L_Vega>>, <<N_Dots>>)
VegaFull    == Line(TRUE,  <<MoveTo(N_100, N_50)>>, <<L_Vega>>, <<N_2>>)
RigelFar    == Line(TRUE,  <<MoveTo(N_3000, N_2000)>>, <<L_NoDash, L_Rigel>>, NoText)
LegendFull  == Line(TRUE,  <<MoveTo(N_100, N_50)>>, <<L_Legend, L_Digit>>, NoText)

LineKinds ==
  { Blank, PathOnly, CoordOnly, UpperMove, BadCoord, EdgePath, AltairLabel,
    RigelLabel, VegaBad, VegaFull, RigelFar, LegendFull }

Blanks(n) == [i \in 1..n |-> Blank]

\* Every file of at most MaxLines lines, and every file of two lines with up
\* to MaxGap blank lines between them.
Files ==
  UNION {[1..n -> LineKinds] : n \in 0..MaxLines}
  \cup {<<a>> \o Blanks(g) \o <<b>> : a \in LineKinds, b \in LineKinds, g \in 0..MaxGap}

---------------------------------------------------------------------------
(* The run *)

Init ==
  /\ lines \in Files
  /\ found_labels = [n \in {} |-> {}]
  /\ todo = <<>>
  /\ pos = 1
  /\ stars = <<>>
  /\ id_counter = 0
  /\ star_list = <<>>
  /\ stars_json = <<>>
  /\ stars_pretty_json = <<>>
  /\ tile_counts = [t \in {} |-> 0]
  /\ report = <<>>
  /\ pc = "scan"

\* Lines 20-37: the scan of every line, and the start of the loop over the
\* sorted names.
Scan ==
  /\ pc = "scan"
  /\ found_labels' = ScanLabels(lines)
  /\ todo' = SortedItems(found_labels')
  /\ pc' = "extract"
  /\ UNCHANGED <<lines, pos, stars, id_counter, star_list, stars_json,
                 stars_pretty_json, tile_counts, report>>

\* The loop iteration with the ValueError of float() caught and the name
\* skipped.
ExtractName_Swallow ==
  /\ pc = "extract"
  /\ pos <= Len(todo)
  /\ LET name     == todo[pos]
         line_idx == Anchor(found_labels, name)
         k        == CoordLine(lines, found_labels, name)
     IN IF k = 0 \/ ParseRaises(lines, k, line_idx)
        THEN /\ pos' = pos + 1
             /\ UNCHANGED <<stars, id_counter, pc>>
        ELSE /\ stars' = Put(stars, MakeRecord(lines, name, k, line_idx, id_counter))
             /\ id_counter' = id_counter + 1
             /\ pos' = pos + 1
             /\ UNCHANGED pc
  /\ UNCHANGED <<lines, found_labels, todo, star_list, stars_json,
                 stars_pretty_json, tile_counts, report>>

\* Lines 37-93: one iteration of the loop over the names.
ExtractName ==
  /\ pc = "extract"
  /\ pos <= Len(todo)
  /\ LET name     == todo[pos]
         line_idx == Anchor(found_labels, name)
         k        == CoordLine(lines, found_labels, name)
     IN \/ /\ k = 0
           /\ pos' = pos + 1
           /\ UNCHANGED <<stars, id_counter, pc>>
        \/ /\ k # 0
           /\ ParseRaises(lines, k, line_idx)
           /\ pc' = "failed"
           /\ UNCHANGED <<stars, id_counter, pos>>
        \/ /\ k # 0
           /\ ~ParseRaises(lines, k, line_idx)
           /\ stars' = Put(stars, MakeRecord(lines, name, k, line_idx, id_counter))
           /\ id_counter' = id_counter + 1
           /\ pos' = pos + 1
           /\ UNCHANGED pc
  /\ UNCHANGED <<lines, found_labels, todo, star_list, stars_json,
                 stars_pretty_json, tile_counts, report>>

\* Lines 98-102: the sorted list and the compact file.
Save ==
  /\ pc = "extract"
  /\ pos > Len(todo)
  /\ star_list' = SortByName(stars)
  /\ stars_json' = <<star_list'>>
  /\ pc' = "save_pretty"
  /\ UNCHANGED <<lines, found_labels, todo, pos, stars, id_counter,
                 stars_pretty_json, tile_counts, report>>

\* Lines 107-108: the indented file.
SavePretty ==
  /\ pc = "save_pretty"
  /\ stars_pretty_json' = <<star_list>>
  /\ pc' = "stats"
  /\ UNCHANGED <<lines, found_labels, todo, pos, stars, id_counter, star_list,
                 stars_json, tile_counts, report>>

\* Lines 113-120: the histogram and its printout.
Stats ==
  /\ pc = "stats"
  /\ tile_counts' = TileCounts(star_list)
  /\ report' = Report(tile_counts')
  /\ pc' = "done"
  /\ UNCHANGED <<lines, found_labels, todo, pos, stars, id_counter, star_list,
                 stars_json, stars_pretty_json>>

Next == Scan \/ ExtractName \/ Save \/ SavePretty \/ Stats

Spec == Init /\ [][Next]_vars

---------------------------------------------------------------------------
(* Vocabulary of the properties, stated on the input lines themselves *)

\* The run is past the extraction loop.
Extracted == pc \in {"save_pretty", "stats", "done"}

\* The names whose loop iteration has completed.
Processed == {todo[p] : p \in 1..(pos - 1)}

HasRecord(n) == \E i \in 1..Len(stars) : stars[i].name = n
RecordOf(n) == stars[CHOOSE i \in 1..Len(stars) : stars[i].name = n]

Min(S) == CHOOSE i \in S : \A h \in S : i <= h
Max(S) == CHOOSE i \in S : \A h \in S : h <= i

\* The lines on which a label attribute ends in "- <name>".
Occurrences(n) ==
  {i \in 1..Len(lines) :
     \E h \in 1..Len(lines[i].labels) :
        /\ LabelMatches(lines[i].labels[h])
        /\ LabelName(lines[i].labels[h]) = n}

FirstLine(n) == Min(Occurrences(n))

\* Line j opens a drawing element, at most `back` lines before line a, and a
\* line from j through a carries a move-to pair.
Yields(j, a) == HasPath(lines[j]) /\ \E k \in j..a : DMatch(lines[k])
YieldsWithin(a, back) == \E j \in 1..a : a - j <= back /\ Yields(j, a)

\* The nearest yielding drawing element in the code's window, and the first
\* line of its span with a move-to pair.
NearestYielding(a) ==
  CHOOSE j \in 1..a :
    /\ InWindow(j, a) /\ Yields(j, a)
    /\ \A h \in (j + 1)..a : ~Yields(h, a)
FirstPair(j, a) ==
  CHOOSE k \in j..a : DMatch(lines[k]) /\ \A h \in j..(k - 1) : ~DMatch(lines[h])

Resolvable(a) == \E j \in 1..a : InWindow(j, a) /\ Yields(j, a)

\* A text the numeric pattern accepts that is not a number.
NotANumber(t) ==
  /\ t # <<>>
  /\ \A i \in 1..Len(t) : t[i] \in DigitDot
  /\ \/ \E i, h \in 1..Len(t) : i # h /\ t[i] = "." /\ t[h] = "."
     \/ \A i \in 1..Len(t) : t[i] = "."

BadScale(a) == lines[a].scale # <<>> /\ NotANumber(lines[a].scale[1])
BadPair(k) ==
  \/ NotANumber(DGroup1(lines[k].d[1]))
  \/ NotANumber(DGroup2(lines[k].d[1]))

RECURSIVE SumTo(_, _)
SumTo(f, n) == IF n = 0 THEN 0 ELSE f[n] + SumTo(f, n - 1)

---------------------------------------------------------------------------
(* C1 *)

\* C1: every emitted record has 0 <= ra < 24 and -90 <= dec <= 90, whatever
\* coordinate pair and scale were parsed.
C1_RaDecInRange ==
  \A i \in 1..Len(stars) :
    /\ 0 <= stars[i].ra /\ stars[i].ra < 24 * Unit
    /\ 0 - 90 * Unit <= stars[i].dec /\ stars[i].dec <= 90 * Unit

(* C2 *)

\* C2: every emitted record has tile_coords.x in 0..3, tile_coords.y in 0..2
\* and tile_id in 0..11.
C2_TilesInRange ==
  \A i \in 1..Len(stars) :
    /\ stars[i].tile_coords.x \in 0..3
    /\ stars[i].tile_coords.y \in 0..2
    /\ stars[i].tile_id \in 0..11

(* C3 *)

\* C3: the ids of the records are exactly 0..N-1, N the number of resolved
\* names, assigned in ascending name order: in the name-sorted output list
\* the record at position i has id i.
C3_IdsContiguous ==
  /\ {stars[i].id : i \in 1..Len(stars)} = 0..(Len(stars) - 1)
  /\ Cardinality({stars[i].id : i \in 1..Len(stars)}) = Len(stars)
  /\ Extracted =>
       /\ Len(star_list) =
            Cardinality({n \in DOMAIN found_labels : Resolvable(FirstLine(n))})
       /\ \A i \in 1..Len(star_list) : star_list[i].id = i - 1
       /\ \A i \in 1..(Len(star_list) - 1) :
            NameLess(star_list[i].name, star_list[i + 1].name)

\* A completed run in which a name was skipped ahead of two names that were
\* resolved.
C3_Witness ==
  /\ pc = "done"
  /\ Len(star_list) >= 2
  /\ \E n \in DOMAIN found_labels :
       ~HasRecord(n) /\ NameLess(n, star_list[1].name)

(* C4 *)

\* The names the labels of the input give, and those among them that are
\* not denylisted.
Candidates ==
  UNION {{LabelName(lines[i].labels[h]) :
            h \in {h \in 1..Len(lines[i].labels) : LabelMatches(lines[i].labels[h])}} :
         i \in 1..Len(lines)}
QualifyingNames == Candidates \ Denylist
Unresolved == {n \in QualifyingNames : ~Resolvable(FirstLine(n))}

\* C4: a qualifying name whose coordinate chain cannot be resolved yields no
\* record and no error; every other name yields the record of its own chain,
\* and the output has one record per qualifying name that is not unresolved.
C4_UnresolvedDropped ==
  /\ \A n \in Processed : HasRecord(n) => Resolvable(FirstLine(n))
  /\ pc = "failed" => Resolvable(FirstLine(todo[pos]))
  /\ Extracted =>
       LET names   == QualifyingNames
           dropped == {n \in names : ~Resolvable(FirstLine(n))}
       IN /\ Len(star_list) = Cardinality(names) - Cardinality(dropped)
          /\ \A n \in names \ dropped :
               /\ HasRecord(n)
               /\ [RecordOf(n) EXCEPT !.id = 0]
                    = MakeRecord(lines, n, CoordLine(lines, found_labels, n),
                                 FirstLine(n), 0)

\* A completed run that dropped exactly one name, sorted ahead of a name
\* that was resolved.
C4_Witness ==
  /\ pc = "done"
  /\ Cardinality(Unresolved) = 1
  /\ Len(star_list) = Cardinality(QualifyingNames) - 1
  /\ Len(star_list) >= 1
  /\ \A n \in Unresolved : NameLess(n, star_list[1].name)

(* C5 *)

\* C5: every name of the output starts with an uppercase letter, has at least
\* four characters, no digit, and is not denylisted; no two records share a
\* name.
C5_NamesValid ==
  /\ \A i \in 1..Len(stars) :
       /\ Len(stars[i].name) >= 4
       /\ stars[i].name[1] \in Upper
       /\ \A c \in 1..Len(stars[i].name) : stars[i].name[c] \notin Digit
       /\ stars[i].name \notin Denylist
  /\ \A i, h \in 1..Len(stars) : i # h => stars[i].name # stars[h].name
  /\ Extracted =>
       /\ {star_list[i].name : i \in 1..Len(star_list)} \subseteq QualifyingNames
       /\ \A i, h \in 1..Len(star_list) :
            i # h => star_list[i].name # star_list[h].name

\* A completed run over a denylisted label that has coordinates of its own
\* and a name that occurs on two lines and has a record.
C5_Witness ==
  /\ pc = "done"
  /\ \E n \in Candidates \cap Denylist : Resolvable(FirstLine(n))
  /\ \E i \in 1..Len(star_list) :
       Cardinality(Occurrences(star_list[i].name)) >= 2

(* C6 *)

\* The coordinate pair the code selects for the name anchored at line a.
SelectedPair(a) == FirstPair(NearestYielding(a), a)

\* C6 as stated: if the coordinate text selected for any name, or the scale
\* text on that name's anchor line, is accepted by the numeric pattern but is
\* not a number, the run fails and writes neither output file: no state past
\* the extraction loop, and no written file, has such a name in its input.
C6_MalformedIsFatal ==
  (Extracted \/ stars_json # <<>> \/ stars_pretty_json # <<>>)
  => ~ \E n \in QualifyingNames :
         LET a == FirstLine(n) IN
           \/ BadScale(a)
           \/ (Resolvable(a) /\ BadPair(SelectedPair(a)))

\* C6 as amended: the scale text counts only on the anchor line of a name
\* for which a coordinate pair was selected.
C6_ParsedMalformedIsFatal ==
  (Extracted \/ stars_json # <<>> \/ stars_pretty_json # <<>>)
  => ~ \E n \in QualifyingNames :
         LET a == FirstLine(n) IN
           /\ Resolvable(a)
           /\ (BadScale(a) \/ BadPair(SelectedPair(a)))

\* The run failed on a malformed scale after a record was built for an
\* earlier name, and no file was written.
C6_Witness ==
  /\ pc = "failed"
  /\ Len(stars) >= 1
  /\ BadScale(FirstLine(todo[pos]))
  /\ stars_json = <<>> /\ stars_pretty_json = <<>>

(* C7 *)

\* C7 as stated: the search covers the anchor line and the 10 lines before
\* it; a drawing element at distance 0..10 is considered (its coordinates are
\* used), one further away never, and a name is skipped when no line of that
\* window opens a drawing element.
C7_WindowTen ==
  \A n \in Processed :
    LET a == FirstLine(n) IN
      /\ YieldsWithin(a, Window) => HasRecord(n)
      /\ HasRecord(n) => YieldsWithin(a, Window)
      /\ (~ \E j \in 1..a : a - j <= Window /\ HasPath(lines[j])) => ~HasRecord(n)

\* C7 as amended: the search covers the anchor line and the 9 lines before
\* it (Window lines in all); a drawing element at distance 0..9 is
\* considered, one further away never, and a name is skipped when no line of
\* that window opens a drawing element or none that does leads to a
\* coordinate pair.
C7_WindowNine ==
  \A n \in Processed :
    LET a == FirstLine(n) IN
      /\ YieldsWithin(a, Window - 1) <=> HasRecord(n)
      /\ (~ \E j \in 1..a : a - j <= Window - 1 /\ HasPath(lines[j])) => ~HasRecord(n)

\* A record whose drawing element is the farthest line of the window.
C7_Witness ==
  /\ pc = "done"
  /\ \E i \in 1..Len(star_list) :
       LET a == FirstLine(star_list[i].name) IN
         /\ a > Window - 1
         /\ Yields(a - (Window - 1), a)
         /\ \A j \in (a - (Window - 1) + 1)..a : ~HasPath(lines[j])

(* C8 *)

\* The drawing-element lines of the window of anchor a, and the
\* coordinate-path lines from line j through a.
PathLines(a) == {j \in 1..a : InWindow(j, a) /\ HasPath(lines[j])}
DLines(j, a) == {k \in j..a : HasD(lines[k])}

\* The nearest drawing element has no coordinate-path line in its span, or
\* the first one has no move-to pair.
NearestFails(a) ==
  /\ PathLines(a) # {}
  /\ \/ DLines(Max(PathLines(a)), a) = {}
     \/ ~DMatch(lines[Min(DLines(Max(PathLines(a)), a))])

\* C8 as stated: the coordinates are the first move-to pair of the first
\* coordinate-path line in the span of the nearest drawing element; if there
\* is no such line, or it has no move-to pair, the name is skipped.
C8_NearestOnly ==
  \A n \in Processed :
    LET a == FirstLine(n) IN
      IF PathLines(a) = {} \/ NearestFails(a)
      THEN ~HasRecord(n)
      ELSE /\ HasRecord(n)
           /\ [RecordOf(n) EXCEPT !.id = 0]
                = MakeRecord(lines, n, Min(DLines(Max(PathLines(a)), a)), a, 0)

\* C8 as amended: the coordinates are the first move-to pair found on a line
\* from a drawing element of the window through the anchor line, taking the
\* nearest drawing element for which there is one; a coordinate-path line
\* without a move-to pair is passed over, and the name is skipped only when
\* no drawing element of the window leads to a pair.
C8_FirstParseable ==
  \A n \in Processed :
    LET a == FirstLine(n) IN
      IF ~Resolvable(a)
      THEN ~HasRecord(n)
      ELSE /\ HasRecord(n)
           /\ [RecordOf(n) EXCEPT !.id = 0]
                = MakeRecord(lines, n, SelectedPair(a), a, 0)

\* A record whose coordinates were found although the nearest drawing
\* element's first coordinate-path line has no move-to pair.
C8_Witness ==
  /\ pc = "done"
  /\ \E i \in 1..Len(star_list) : NearestFails(FirstLine(star_list[i].name))

(* C9 *)

\* C9: only the first occurrence of a name is its anchor: the record comes
\* from the search that starts there, and the name is dropped when that
\* search finds nothing, whatever its later occurrences would give.
C9_FirstOccurrenceOnly ==
  \A n \in Processed :
    LET a == FirstLine(n)
        k == SearchBackward(lines, a, a)
    IN IF k = 0
       THEN ~HasRecord(n)
       ELSE /\ HasRecord(n)
            /\ [RecordOf(n) EXCEPT !.id = 0] = MakeRecord(lines, n, k, a, 0)

\* A completed run that dropped a name whose later occurrence would resolve.
C9_Witness ==
  /\ pc = "done"
  /\ \E n \in DOMAIN found_labels :
       /\ ~HasRecord(n)
       /\ \E i \in Occurrences(n) : i # FirstLine(n) /\ SearchBackward(lines, i, i) # 0

(* C10 *)

\* C10: the 12 counts reported for tiles 0..11 sum to the number of output
\* records, each record counted in the tile of its tile_id.
C10_HistogramSums ==
  pc = "done" =>
    /\ SumTo(report, 12) = Len(star_list)
    /\ \A i \in 1..Len(star_list) :
         /\ star_list[i].tile_id \in 0..11
         /\ report[star_list[i].tile_id + 1]
              = Cardinality({h \in 1..Len(star_list) :
                               star_list[h].tile_id = star_list[i].tile_id})

=============================================================================
